---- MODULE Spec2Model ----
(***************************************************************************)
(* AncovaAnalysis (src/src/ANCOVA.js): construction with input validation, *)
(* the asynchronous analyze() call, dummy encoding of the group column,    *)
(* design-matrix construction, OLS through the normal equations and the    *)
(* partial F-test.                                                         *)
(*                                                                         *)
(* Numbers are exact rationals n/d (d >= 0); d = 0 encodes the IEEE        *)
(* results of a division by zero: 1/0 = Infinity, -1/0 = -Infinity and     *)
(* 0/0 = NaN.  Rounding of doubles is not modelled.                        *)
(* Strings are sequences of one-character strings, so that template        *)
(* strings (concatenation) and the code-unit order of Array.prototype.sort *)
(* can be computed.                                                        *)
(***************************************************************************)
EXTENDS Integers, Sequences, FiniteSets

VARIABLES
  frame,     \* the caller's DataFrame `data`, shared by reference with this.df
  obj,       \* the AncovaAnalysis object: not built, failed in the constructor, or ready
  inflight,  \* analyze() calls suspended at `await require("jstat@1.9.4")`
  outcome,   \* what the last settled analyze() promise delivered
  validated, \* the DataFrame as it was when _validateInputs accepted it
  writes     \* writes to the DataFrame made by its owner so far

vars == <<frame, obj, inflight, outcome, validated, writes>>

(***************************************************************************)
(* Bounds                                                                  *)
(***************************************************************************)
MaxRows == 4
MaxCalls == 2
MaxWrites == 1

(***************************************************************************)
(* JavaScript values and strings                                           *)
(***************************************************************************)
Num(n) == [t |-> "number", n |-> n, s |-> <<>>]
Str(s) == [t |-> "string", n |-> 0, s |-> s]

Chars == <<"-", "0", "1", "2", "3", "4", "5", "6", "7", "8", "9",
           "A", "B", "C", "_", "g", "w", "x", "y">>
Codes == <<45, 48, 49, 50, 51, 52, 53, 54, 55, 56, 57,
           65, 66, 67, 95, 103, 119, 120, 121>>

\* UTF-16 code unit of a character
CodeUnit(c) == Codes[CHOOSE i \in 1..Len(Chars) : Chars[i] = c]

RECURSIVE NatToString(_)
NatToString(n) ==
  IF n < 10 THEN <<Chars[n + 2]>>
  ELSE NatToString(n \div 10) \o <<Chars[(n % 10) + 2]>>

\* Number::toString for integers
NumberToString(n) == IF n < 0 THEN <<"-">> \o NatToString(-n) ELSE NatToString(n)

\* ToString of a value, as applied by template literals and by the default sort
ToString(v) == IF v.t = "number" THEN NumberToString(v.n) ELSE v.s

\* a < b for strings: code-unit lexicographic order
StringLess(a, b) ==
  \/ /\ Len(a) < Len(b)
     /\ \A i \in 1..Len(a) : a[i] = b[i]
  \/ \E k \in 1..Len(a) :
       /\ k <= Len(b)
       /\ \A i \in 1..(k - 1) : a[i] = b[i]
       /\ CodeUnit(a[k]) < CodeUnit(b[k])

\* [...new Set(array)]: the distinct values in order of first occurrence
SetToArray(a) ==
  LET RECURSIVE Go(_, _)
      Go(i, acc) ==
        IF i > Len(a) THEN acc
        ELSE IF \E k \in 1..Len(acc) : acc[k] = a[i] THEN Go(i + 1, acc)
        ELSE Go(i + 1, Append(acc, a[i]))
  IN Go(1, <<>>)

\* the default comparator of Array.prototype.sort: x before y iff
\* ToString(x) < ToString(y)
SortCompareLess(x, y) == StringLess(ToString(x), ToString(y))

\* Array.prototype.sort() without comparator (stable insertion into place)
sort(a) ==
  LET Insert(acc, v) ==
        LET pos == Cardinality({k \in 1..Len(acc) : ~SortCompareLess(v, acc[k])})
        IN SubSeq(acc, 1, pos) \o <<v>> \o SubSeq(acc, pos + 1, Len(acc))
      RECURSIVE Go(_, _)
      Go(i, acc) == IF i > Len(a) THEN acc ELSE Go(i + 1, Insert(acc, a[i]))
  IN Go(1, <<>>)

\* const v = value; Body(v): the value is computed once
With(value, Body(_)) == CHOOSE r \in {Body(v) : v \in {value}} : TRUE

(***************************************************************************)
(* DataFrame ("./DataFrame.js", imported at line 1; not in src/)           *)
(***************************************************************************)
\* declared type of a column: "number" when every value is a number
InferType(col) == IF \A i \in 1..Len(col) : col[i].t = "number" THEN "number" ELSE "string"

\* new DataFrame(columns) from a column-based object
DataFrame(data) ==
  [_data   |-> data,
   _types  |-> [c \in DOMAIN data |-> InferType(data[c])],
   _length |-> IF DOMAIN data = {} THEN 0
               ELSE Len(data[CHOOSE c \in DOMAIN data : TRUE])]

\* obj[key] = value on a plain object
Put(o, key, value) == [c \in DOMAIN o \cup {key} |-> IF c = key THEN value ELSE o[c]]

(***************************************************************************)
(* Errors                                                                  *)
(***************************************************************************)
NoError == [name |-> "none", column |-> <<>>]
Thrown(name, column) == [name |-> name, column |-> column]

(***************************************************************************)
(* AncovaAnalysis._validateInputs                                          *)
(***************************************************************************)
\* as FirstBadCovariate, without the test of the declared type
FirstMissingCovariate(d, covariates) ==
  LET bad == {j \in 1..Len(covariates) : covariates[j] \notin DOMAIN d._data}
  IN IF bad = {} THEN 0 ELSE CHOOSE j \in bad : \A k \in bad : j <= k

\* the covariate whose check throws first, 0 if none does
FirstBadCovariate(d, covariates) ==
  LET bad == {j \in 1..Len(covariates) :
                \/ covariates[j] \notin DOMAIN d._data
                \/ d._types[covariates[j]] /= "number"}
  IN IF bad = {} THEN 0 ELSE CHOOSE j \in bad : \A k \in bad : j <= k

_validateInputs(d, dependentVar, covariates, groupVar) ==
  LET j == FirstBadCovariate(d, covariates) IN
  IF dependentVar \notin DOMAIN d._data
    THEN Thrown("Dependent variable not found in DataFrame", dependentVar)
  ELSE IF d._types[dependentVar] /= "number"
    THEN Thrown("Dependent variable must be numeric", dependentVar)
  ELSE IF j /= 0 /\ covariates[j] \notin DOMAIN d._data
    THEN Thrown("Covariate not found in DataFrame", covariates[j])
  ELSE IF j /= 0
    THEN Thrown("Covariate must be numeric", covariates[j])
  ELSE IF groupVar \notin DOMAIN d._data
    THEN Thrown("Group variable not found in DataFrame", groupVar)
  ELSE NoError

(***************************************************************************)
(* AncovaAnalysis._encodeDummies                                           *)
(***************************************************************************)
\* `${this.groupVar}_${level}`
dummyName(groupVar, level) == groupVar \o <<"_">> \o ToString(level)

\* as Indicator, with the branches of the conditional exchanged
IndicatorExchanged(column, level) ==
  [i \in 1..Len(column) |-> IF column[i] = level THEN Num(0) ELSE Num(1)]

\* new Float64Array(column.map((val) => (val === level ? 1 : 0)))
Indicator(column, level) ==
  [i \in 1..Len(column) |-> IF column[i] = level THEN Num(1) ELSE Num(0)]

\* as _encodeDummies, with dummyData aliasing this.df._data instead of copying it
_encodeDummiesInPlace(d, groupVar) ==
  With(sort(SetToArray(d._data[groupVar])), LAMBDA levels :
    LET RECURSIVE AddDummies(_, _)
        AddDummies(k, dummyData) ==
          IF k > Len(levels) THEN dummyData
          ELSE AddDummies(k + 1,
                 Put(dummyData, dummyName(groupVar, levels[k]),
                     Indicator(d._data[groupVar], levels[k])))
    IN [df          |-> [d EXCEPT !._data = AddDummies(2, d._data)],
        encodedData |-> DataFrame(AddDummies(2, d._data)),
        levels      |-> levels])

\* the result carries this.df as the call leaves it
_encodeDummies(d, groupVar) ==
  With(sort(SetToArray(d._data[groupVar])), LAMBDA levels :
    LET RECURSIVE AddDummies(_, _)
        AddDummies(k, dummyData) ==
          IF k > Len(levels) THEN dummyData
          ELSE AddDummies(k + 1,
                 Put(dummyData, dummyName(groupVar, levels[k]),
                     Indicator(d._data[groupVar], levels[k])))
    IN [df          |-> d,
        encodedData |-> DataFrame(AddDummies(2, d._data)),
        levels      |-> levels])

(***************************************************************************)
(* Numbers: exact rationals with the IEEE results of x/0                   *)
(***************************************************************************)
Abs(a) == IF a < 0 THEN -a ELSE a
Sign(a) == IF a < 0 THEN -1 ELSE IF a > 0 THEN 1 ELSE 0

RECURSIVE GCD(_, _)
GCD(a, b) == IF b = 0 THEN a ELSE GCD(b, a % b)

\* the number n/d in lowest terms; n/0 is Infinity, -Infinity or NaN
Q(n, d) ==
  IF d = 0 THEN [n |-> Sign(n), d |-> 0]
  ELSE LET g == GCD(Abs(n), Abs(d))
       IN [n |-> Sign(d) * (n \div g), d |-> Abs(d) \div g]

NaN == Q(0, 0)
IsNaN(a) == a.n = 0 /\ a.d = 0

\* a + b
QAdd(a, b) ==
  IF a.d = 0 /\ b.d = 0 THEN (IF a.n = b.n THEN a ELSE NaN)
  ELSE Q(a.n * b.d + b.n * a.d, a.d * b.d)

\* a - b
QSub(a, b) == QAdd(a, [n |-> -b.n, d |-> b.d])

\* a * b
QMul(a, b) == Q(a.n * b.n, a.d * b.d)

\* a / b: x/0 is +-Infinity for x /= 0, 0/0 is NaN, x/Infinity is 0
QDiv(a, b) == QMul(a, Q(b.d, b.n))

\* a >= 0 as JavaScript evaluates it (false for NaN)
QNonNegative(a) == a.n >= 0 /\ ~IsNaN(a)

(***************************************************************************)
(* AncovaAnalysis._buildDesignMatrix                                       *)
(***************************************************************************)
_buildDesignMatrix(d, predictors, dependentVar) ==
  LET n == d._length
      p == Len(predictors) + 1
  IN [X |-> [i \in 1..n |->
               [j \in 1..p |-> IF j = 1 THEN 1 ELSE d._data[predictors[j - 1]][i].n]],
      y |-> [i \in 1..Len(d._data[dependentVar]) |-> d._data[dependentVar][i].n]]

(***************************************************************************)
(* Linear algebra supplied by jStat (det, inv), on integer matrices        *)
(***************************************************************************)
\* the matrix without row r and column c
Minor(M, r, c) ==
  LET m == Len(M)
  IN [i \in 1..(m - 1) |->
       [j \in 1..(m - 1) |->
          M[IF i < r THEN i ELSE i + 1][IF j < c THEN j ELSE j + 1]]]

\* jStat.det: cofactor expansion along the first row
RECURSIVE det(_)
det(M) ==
  IF Len(M) = 1 THEN M[1][1]
  ELSE IF Len(M) = 2 THEN M[1][1] * M[2][2] - M[1][2] * M[2][1]
  ELSE LET RECURSIVE Expand(_)
           Expand(c) ==
             IF c > Len(M) THEN 0
             ELSE (IF c % 2 = 1 THEN 1 ELSE -1) * M[1][c]
                    * With(Minor(M, 1, c), LAMBDA m : det(m))
                  + Expand(c + 1)
       IN Expand(1)

\* the adjugate: det(M) * jStat.inv(M)
Adjugate(M) ==
  IF Len(M) = 1 THEN <<<<1>>>>
  ELSE [i \in 1..Len(M) |->
         [j \in 1..Len(M) |->
            (IF (i + j) % 2 = 0 THEN 1 ELSE -1)
              * With(Minor(M, j, i), LAMBDA m : det(m))]]

\* sum of f over 1..m
RECURSIVE Sum(_, _)
Sum(f, m) == IF m = 0 THEN 0 ELSE f[m] + Sum(f, m - 1)

(***************************************************************************)
(* AncovaAnalysis._fitModel                                                *)
(***************************************************************************)
\* as NearlySingular, with the test left out
NeverSingular(d) == FALSE

\* Math.abs(jStat.det(XtX)) < 1e-12; the entries of XtX are integers here,
\* so the determinant d is an integer and the test is d = 0
NearlySingular(d) == Abs(d) < 1

\* X^T X
Gram(X) ==
  [j \in 1..Len(X[1]) |->
    [k \in 1..Len(X[1]) |-> Sum([i \in 1..Len(X) |-> X[i][j] * X[i][k]], Len(X))]]

\* the statistics of the fit, given X^T X, its determinant D and its adjugate;
\* coefficients, fitted values and residuals share the denominator D
Fitted(X, y, XtX, D, adj) ==
  LET n == Len(X)
      p == Len(X[1])
  IN With([j \in 1..p |-> Sum([i \in 1..n |-> X[i][j] * y[i]], n)], LAMBDA XtY :
     With([j \in 1..p |-> Sum([k \in 1..p |-> adj[j][k] * XtY[k]], p)], LAMBDA betaN :
     With([i \in 1..n |-> Sum([j \in 1..p |-> X[i][j] * betaN[j]], p)], LAMBDA yhatN :
     With([i \in 1..n |-> y[i] * D - yhatN[i]], LAMBDA resN :
     With(Q(Sum([i \in 1..n |-> resN[i] * resN[i]], n), D * D), LAMBDA rss :
     With(QDiv(rss, Q(n - p, 1)), LAMBDA s2 :
       [error     |-> NoError,
        beta      |-> [j \in 1..p |-> Q(betaN[j], D)],
        yhat      |-> [i \in 1..n |-> Q(yhatN[i], D)],
        residuals |-> [i \in 1..n |-> Q(resN[i], D)],
        rss       |-> rss,
        df        |-> n - p,
        s2        |-> s2,
        \* se[i] = Math.sqrt(seSquared[i]), tStats[i] = beta[i] / se[i]
        seSquared |-> [j \in 1..p |-> QMul(s2, Q(adj[j][j], D))],
        \* pValues[i] = 2 * (1 - jStat.studentt.cdf(|tStats[i]|, tDf))
        tDf       |-> n - p,
        XtX_inv   |-> [j \in 1..p |-> [k \in 1..p |-> Q(adj[j][k], D)]]]))))))

_fitModel(X, y) ==
  With(Gram(X), LAMBDA XtX :
  With(det(XtX), LAMBDA D :
    IF NearlySingular(D)
      THEN [error |-> Thrown("X^T X is singular or nearly singular", <<>>)]
      ELSE With(Adjugate(XtX), LAMBDA adj : Fitted(X, y, XtX, D, adj))))

(***************************************************************************)
(* AncovaAnalysis._partialFTest                                            *)
(***************************************************************************)
_partialFTest(RSS_reduced, RSS_full, df_reduced, df_full, nParamsAdded) ==
  LET numerator == QDiv(QSub(RSS_reduced, RSS_full), Q(nParamsAdded, 1))
      denominator == QDiv(RSS_full, Q(df_full, 1))
      fStatistic == QDiv(numerator, denominator)
  IN [fStatistic |-> fStatistic,
      \* pValue = 1 - jStat.centralF.cdf(fStatistic, df1, df2)
      pValue     |-> [x |-> fStatistic, df1 |-> nParamsAdded, df2 |-> df_full]]

(***************************************************************************)
(* AncovaAnalysis.analyze, from the resumption after the await on          *)
(***************************************************************************)
NoModel == [error |-> NoError]
NoPartialF == [fStatistic |-> NaN, pValue |-> [x |-> NaN, df1 |-> 0, df2 |-> 0]]

\* a promise not settled yet, and one rejected with a thrown error
Pending ==
  [settled |-> "pending", error |-> NoError, reducedModel |-> NoModel,
   fullModel |-> NoModel, partialF |-> NoPartialF, levels |-> <<>>]
Rejected(error) == [Pending EXCEPT !.settled = "rejected", !.error = error]

\* the body of analyze() on this = (d, dependentVar, covariates, groupVar):
\* this.df as the call leaves it, and what the promise settles with
analyze(d, dependentVar, covariates, groupVar) ==
  With(_encodeDummies(d, groupVar), LAMBDA enc :
  With([k \in 1..(Len(enc.levels) - 1) |-> dummyName(groupVar, enc.levels[k + 1])],
       LAMBDA dummyCols :
  With(_buildDesignMatrix(enc.encodedData, covariates, dependentVar),
       LAMBDA reducedDesign :
  With(_fitModel(reducedDesign.X, reducedDesign.y), LAMBDA reducedModel :
    IF reducedModel.error /= NoError
      THEN [df |-> enc.df, promise |-> Rejected(reducedModel.error)]
      ELSE
  With(_buildDesignMatrix(enc.encodedData, covariates \o dummyCols, dependentVar),
       LAMBDA fullDesign :
  With(_fitModel(fullDesign.X, fullDesign.y), LAMBDA fullModel :
    IF fullModel.error /= NoError
      THEN [df |-> enc.df, promise |-> Rejected(fullModel.error)]
      ELSE [df |-> enc.df,
            promise |->
              [settled |-> "fulfilled", error |-> NoError,
               reducedModel |-> reducedModel, fullModel |-> fullModel,
               partialF |-> _partialFTest(reducedModel.rss, fullModel.rss,
                                          reducedModel.df, fullModel.df,
                                          Len(dummyCols)),
               levels |-> enc.levels]]))))))

(***************************************************************************)
(* Inputs                                                                  *)
(***************************************************************************)
Y == <<"y">>
X == <<"x">>
G == <<"g">>
GB == <<"g", "_", "B">>

YVals == {0, 1}
XVals == {0, 1}
TwoLevels == {Str(<<"A">>), Str(<<"B">>)}
StringLevels == {Str(<<"A">>), Str(<<"B">>), Str(<<"C">>)}
NumberLevels == {Num(2), Num(9), Num(10)}

NumCol(f) == [i \in DOMAIN f |-> Num(f[i])]
Columns(y, x, g) == [c \in {Y, X, G} |-> IF c = Y THEN y ELSE IF c = X THEN x ELSE g]

\* a rows of group A followed by n - a rows of group B
Grouped(n, a) == [i \in 1..n |-> IF i <= a THEN Str(<<"A">>) ELSE Str(<<"B">>)]

\* outcome and covariate vary freely over one group of rows, or two of equal size
FitFrames ==
  UNION {{DataFrame(Columns(NumCol(y), NumCol(x), Grouped(n, a))) :
            y \in [1..n -> YVals], x \in [1..n -> XVals], a \in {0, n \div 2}} :
         n \in 1..MaxRows}

\* the group column varies over up to three string or number levels, next to
\* a fixed outcome and covariate, with or without a numeric column named g_B
LevelFrames ==
  UNION {LET y == [i \in 1..n |-> Num((i * i) % 3)]
             x == [i \in 1..n |-> Num(i)]
         IN UNION {{DataFrame(Columns(y, x, g)),
                    DataFrame(Put(Columns(y, x, g), GB, x))} :
                   g \in [1..n -> StringLevels] \cup [1..n -> NumberLevels]} :
         n \in 1..MaxRows}

\* options.covariates: an array of names, or a single name
Array(a) == [isArray |-> TRUE, names |-> a]
Single(c) == [isArray |-> FALSE, names |-> <<c>>]

Options ==
  [dependentVar : {Y, G, GB},
   covariates   : {Array(<<X>>), Array(<<X, X>>), Single(X), Array(<<X, G>>),
                   Array(<<GB>>)},
   groupVar     : {G, GB}]

(***************************************************************************)
(* State                                                                   *)
(***************************************************************************)
NoObject ==
  [state |-> "none", dependentVar |-> <<>>, covariates |-> <<>>, groupVar |-> <<>>,
   error |-> NoError]
NoFrame == DataFrame(<<>>)

InitRest ==
  /\ obj = NoObject
  /\ inflight = 0
  /\ outcome = Pending
  /\ validated = NoFrame
  /\ writes = 0

Init == (frame \in FitFrames \/ frame \in LevelFrames) /\ InitRest

(***************************************************************************)
(* new AncovaAnalysis({ data, options })                                   *)
(***************************************************************************)
constructor(isDataFrame, options) ==
  /\ obj.state = "none"
  /\ IF ~isDataFrame
       THEN /\ obj' = [NoObject EXCEPT !.state = "failed",
                         !.error = Thrown("data must be a DataFrame instance", <<>>)]
            /\ UNCHANGED validated
       ELSE LET covariates == options.covariates.names
                error == _validateInputs(frame, options.dependentVar, covariates,
                                         options.groupVar)
            IN /\ obj' = [state        |-> IF error = NoError THEN "ready" ELSE "failed",
                          dependentVar |-> options.dependentVar,
                          covariates   |-> covariates,
                          groupVar     |-> options.groupVar,
                          error        |-> error]
               /\ validated' = IF error = NoError THEN frame ELSE validated
  /\ UNCHANGED <<frame, inflight, outcome, writes>>

(***************************************************************************)
(* analyze(): up to the await, and from the await on                       *)
(***************************************************************************)
\* the call runs to `await require("jstat@1.9.4")` and hands back a promise
analyzeCall ==
  /\ obj.state = "ready"
  /\ inflight < MaxCalls
  /\ inflight' = inflight + 1
  /\ UNCHANGED <<frame, obj, outcome, validated, writes>>

\* as analyzeResume, reading the columns as they were when validated
analyzeResumeValidated ==
  /\ inflight > 0
  /\ \E r \in {analyze(validated, obj.dependentVar, obj.covariates, obj.groupVar)} :
       /\ frame' = frame
       /\ outcome' = r.promise
  /\ inflight' = inflight - 1
  /\ UNCHANGED <<obj, validated, writes>>

\* one suspended call resumes and runs to its return or throw
analyzeResume ==
  /\ inflight > 0
  /\ \E r \in {analyze(frame, obj.dependentVar, obj.covariates, obj.groupVar)} :
       /\ frame' = r.df
       /\ outcome' = r.promise
  /\ inflight' = inflight - 1
  /\ UNCHANGED <<obj, validated, writes>>

Next ==
  \/ \E isDataFrame \in BOOLEAN, options \in Options : constructor(isDataFrame, options)
  \/ (inflight = 0 /\ outcome = Pending /\ analyzeCall)
  \/ analyzeResume

Spec == Init /\ [][Next]_vars

(***************************************************************************)
(* The owner of the DataFrame writes to it while the analysis object holds *)
(* a reference (this.df = data), and calls analyze() again before an       *)
(* earlier call has settled                                                *)
(***************************************************************************)
\* the values a cell of a column may be overwritten with
CellValues(column) ==
  IF InferType(column) = "number" THEN {Num(v) : v \in YVals} ELSE TwoLevels

\* data._data[c][i] = v
writeCell ==
  /\ writes < MaxWrites
  /\ \E c \in DOMAIN frame._data :
       \E i \in 1..Len(frame._data[c]) :
         \E v \in CellValues(frame._data[c]) \ {frame._data[c][i]} :
           frame' = [frame EXCEPT !._data[c][i] = v]
  /\ writes' = writes + 1
  /\ UNCHANGED <<obj, inflight, outcome, validated>>

\* data._types[c] = "string"
writeType ==
  /\ writes < MaxWrites
  /\ \E c \in DOMAIN frame._types :
       /\ frame._types[c] = "number"
       /\ frame' = [frame EXCEPT !._types[c] = "string"]
  /\ writes' = writes + 1
  /\ UNCHANGED <<obj, inflight, outcome, validated>>

\* four rows, in two groups or one, with the covariate 0, 1, 0, 1
InitShared ==
  /\ frame \in {f \in FitFrames : f._data[X] = NumCol(<<0, 1, 0, 1>>)}
  /\ InitRest

NextShared ==
  \/ \E isDataFrame \in BOOLEAN, options \in Options : constructor(isDataFrame, options)
  \/ analyzeCall
  \/ analyzeResume
  \/ writeCell
  \/ writeType

SpecShared == InitShared /\ [][NextShared]_vars

(***************************************************************************)
(* Properties                                                              *)
(***************************************************************************)
DistinctValues(column) == {column[i] : i \in 1..Len(column)}
Settled == outcome.settled /= "pending"
Fulfilled == outcome.settled = "fulfilled"
SingularError == "X^T X is singular or nearly singular"

\* the number of rows and of design columns of the analysis in progress
Rows == frame._length
GroupLevels == DistinctValues(frame._data[obj.groupVar])
ReducedColumns == 1 + Len(obj.covariates)
FullColumns == ReducedColumns + Cardinality(GroupLevels) - 1

\* C1: when the group column holds fewer than 2 distinct values, analyze()
\* ends in an error and returns no result
C1_FewLevelsRejected ==
  (obj.state = "ready" /\ Settled /\ Cardinality(GroupLevels) < 2)
    => outcome.settled = "rejected"

\* C2: when the rows are no more than the columns of the reduced or of the
\* full design, analyze() fails; it returns no model with df <= 0
C2_NoResultWithoutResidualDf ==
  /\ (obj.state = "ready" /\ Settled /\ (Rows <= ReducedColumns \/ Rows <= FullColumns))
       => outcome.settled = "rejected"
  /\ Fulfilled => (outcome.reducedModel.df > 0 /\ outcome.fullModel.df > 0)

\* the predictor columns of the full design, as the designs read them
PredictorColumns ==
  With(_encodeDummies(frame, obj.groupVar), LAMBDA enc :
    [k \in 1..(Len(obj.covariates) + Len(enc.levels) - 1) |->
       IF k <= Len(obj.covariates)
         THEN enc.encodedData._data[obj.covariates[k]]
         ELSE enc.encodedData._data[
                dummyName(obj.groupVar, enc.levels[k - Len(obj.covariates) + 1])]])

\* a covariate column equal to another predictor column of the full design
DuplicatedCovariate ==
  \E cols \in {PredictorColumns} :
    \E j \in 1..Len(obj.covariates) :
      \E k \in 1..Len(cols) : k /= j /\ cols[j] = cols[k]

\* C3: a design in which a covariate column duplicates another predictor
\* column ends in the singular-matrix error, with no result returned
C3_DuplicateColumnIsSingular ==
  (obj.state = "ready" /\ Settled /\ DuplicatedCovariate)
    => /\ outcome.settled = "rejected"
       /\ outcome.error.name = SingularError

\* a duplicated covariate was rejected although the rows outnumber the columns
C3_Witness ==
  /\ obj.state = "ready"
  /\ Settled
  /\ Rows > FullColumns
  /\ DuplicatedCovariate
  /\ outcome.error.name = SingularError

\* the columns of d that the constructor must refuse for these options
Offending(d, dependentVar, covariates, groupVar) ==
  {c \in {dependentVar} \cup {covariates[j] : j \in 1..Len(covariates)} :
     c \notin DOMAIN d._data \/ d._types[c] /= "number"}
  \cup {c \in {groupVar} : c \notin DOMAIN d._data}

\* C4: the constructor throws an error naming an offending column whenever
\* the dependent variable or a covariate is missing or not numeric or the
\* group variable is missing; analyze() only runs on an object whose
\* columns were all acceptable at construction
C4_ConstructorNamesOffendingColumn ==
  /\ (obj.state = "failed" /\ obj.error.name /= "data must be a DataFrame instance")
       => obj.error.column \in
            Offending(frame, obj.dependentVar, obj.covariates, obj.groupVar)
  /\ obj.state = "ready"
       => Offending(validated, obj.dependentVar, obj.covariates, obj.groupVar) = {}
  /\ (inflight > 0 \/ Settled) => obj.state = "ready"

\* the constructor refused the second covariate of two
C4_Witness ==
  /\ obj.state = "failed"
  /\ Len(obj.covariates) = 2
  /\ obj.error.column = obj.covariates[2]
  /\ obj.covariates[1] \in DOMAIN frame._data

\* the order of the value type: numeric for numbers, code units for strings
NaturalLess(a, b) ==
  IF a.t = "number" /\ b.t = "number" THEN a.n < b.n ELSE StringLess(ToString(a), ToString(b))

\* C5: the returned levels are the distinct values of the group column, each
\* once, ascending in the order of the value type, the reference level
\* (element 1) being the minimum
C5_LevelsSortedNaturally ==
  (obj.state = "ready" /\ Fulfilled)
    => /\ DistinctValues(outcome.levels) = GroupLevels
       /\ Len(outcome.levels) = Cardinality(GroupLevels)
       /\ \A i, j \in 1..Len(outcome.levels) :
            i < j => NaturalLess(outcome.levels[i], outcome.levels[j])

\* C6: for every level L but the reference level the encoder produces one
\* indicator column of length n, 1 in the rows that hold L and 0 elsewhere;
\* a row has at most one indicator set, and none exactly when it holds the
\* reference level
C6_IndicatorColumns ==
  (obj.state = "ready" /\ Settled)
    => \A enc \in {_encodeDummies(frame, obj.groupVar)} :
         LET column == frame._data[obj.groupVar]
             encoded == enc.encodedData._data
             reference == enc.levels[1]
             others == GroupLevels \ {reference}
             name(L) == dummyName(obj.groupVar, L)
         IN /\ \A L \in others :
                 /\ name(L) \in DOMAIN encoded
                 /\ Len(encoded[name(L)]) = Len(column)
                 /\ \A i \in 1..Len(column) :
                      encoded[name(L)][i] = IF column[i] = L THEN Num(1) ELSE Num(0)
            /\ \A L, M \in others : name(L) = name(M) => L = M
            /\ \A i \in 1..Len(column) :
                 /\ Cardinality({L \in others : encoded[name(L)][i] = Num(1)}) <= 1
                 /\ (\A L \in others : encoded[name(L)][i] = Num(0))
                      <=> column[i] = reference

\* an analysis settled on a group column of three levels, numbers included
C6_Witness ==
  /\ obj.state = "ready"
  /\ Settled
  /\ Cardinality(GroupLevels) = 3
  /\ \E L \in GroupLevels : L.t = "number"

\* C7: in every returned result the partial F-statistic is >= 0 and its
\* p-value is taken with the degrees of freedom (q, n - p_full), where
\* q = |levels| - 1 and p_full = 1 + covariates + q
C7_FNonNegative ==
  (obj.state = "ready" /\ Fulfilled)
    => /\ QNonNegative(outcome.partialF.fStatistic)
       /\ outcome.partialF.pValue.x = outcome.partialF.fStatistic
       /\ outcome.partialF.pValue.df1 = Len(outcome.levels) - 1
       /\ outcome.partialF.pValue.df2 = Rows - FullColumns

C9_FrameUnchanged ==
  [][(obj' /= obj \/ inflight' /= inflight) => frame' = frame]_vars

\* a result with a dummy level was returned and the DataFrame holds no dummy column
C9_Witness ==
  /\ Fulfilled
  /\ Len(outcome.levels) = 2
  /\ DOMAIN frame._data = {Y, X, G}

\* C10: the encoded data holds every original column with its original
\* values, and the outcome vector of the designs is the source column
C10_OriginalColumnsKept ==
  (obj.state = "ready" /\ Fulfilled)
    => /\ \A enc \in {_encodeDummies(frame, obj.groupVar)} :
            \A c \in DOMAIN frame._data : enc.encodedData._data[c] = frame._data[c]
       /\ \A i \in 1..Rows :
            QAdd(outcome.reducedModel.yhat[i], outcome.reducedModel.residuals[i])
              = Q(frame._data[obj.dependentVar][i].n, 1)

====
